---- MODULE Spec2Model ----
(***************************************************************************)
(* plaintextree: the incremental tree printer.                             *)
(*                                                                         *)
(* A TreePrinter owns a sink (writer), its options and a stack of per-depth*)
(* item states.  open_node / close_node / finalize drive an ItemWriter,    *)
(* which splits the node text into lines and writes, before each line, the *)
(* prefix and padding of every open depth.                                 *)
(*                                                                         *)
(* Characters are one-element strings; a text is a sequence of characters. *)
(* Box-drawing characters are written by their code point ("u2514").       *)
(***************************************************************************)
EXTENDS Integers, Sequences, FiniteSets, TLC

\* Number of open_node / close_node calls explored in one run.
MaxOps == 3

\* Longest text given to the line splitter on its own.
MaxLen == 4

\* Most writes a failing sink accepts before it reports an error.
MaxLeft == 6

NL == "\n"
CR == "\r"
SP == " "
\* The grave accent U+0060.
BQ == "u0060"

Spaces(n) == [i \in 1..n |-> SP]

\* The sink content the caller hands to TreePrinter::new (as in the tests).
Seed == <<".", NL>>

Edges == {"Ascii", "UnicodeSingleWidth", "UnicodeDoubleWidth"}

\* Node texts the caller supplies: no line, one line, a trailing newline, an
\* empty line, an empty line between two lines, two empty lines.
Contents ==
  { <<>>, <<"a">>, <<"a", NL>>, <<NL>>, <<"a", NL, NL, "a">>, <<NL, NL>> }

\* A few short node texts.
ContentsShort == { <<>>, <<"a">>, <<"a", NL>> }

\* Node texts with carriage returns.
ContentsCR ==
  { <<"a">>, <<CR>>, <<"a", CR>>, <<"a", CR, NL>>, <<"a", CR, "a">>,
    <<"a", CR, NL, "a">> }

(***************************************************************************)
(* Edge glyph table.                                                       *)
(***************************************************************************)

\* A table that draws every style family with the Ascii glyphs.
write_edge_all_ascii(edge, last_child, first_line, fragment) ==
  IF first_line
  THEN IF fragment = "Prefix"
       THEN IF last_child THEN <<BQ, "-", "-">> ELSE <<"|", "-", "-">>
       ELSE <<SP>>
  ELSE IF last_child
       THEN IF fragment = "Prefix" THEN <<>> ELSE Spaces(4)
       ELSE IF fragment = "Prefix" THEN <<"|">> ELSE Spaces(3)

\* EdgeConfig::write_edge: the string written for a position.
write_edge(edge, last_child, first_line, fragment) ==
  CASE edge = "Ascii" ->
         IF first_line
         THEN IF fragment = "Prefix"
              THEN IF last_child THEN <<BQ, "-", "-">> ELSE <<"|", "-", "-">>
              ELSE <<SP>>
         ELSE IF last_child
              THEN IF fragment = "Prefix" THEN <<>> ELSE Spaces(4)
              ELSE IF fragment = "Prefix" THEN <<"|">> ELSE Spaces(3)
    [] edge = "UnicodeSingleWidth" ->
         IF first_line
         THEN IF fragment = "Prefix"
              THEN IF last_child THEN <<"u2514", "u2500", "u2500">>
                                 ELSE <<"u251C", "u2500", "u2500">>
              ELSE <<SP>>
         ELSE IF last_child
              THEN IF fragment = "Prefix" THEN <<>> ELSE Spaces(4)
              ELSE IF fragment = "Prefix" THEN <<"u2502">> ELSE Spaces(3)
    [] edge = "UnicodeDoubleWidth" ->
         IF first_line
         THEN IF fragment = "Prefix"
              THEN IF last_child THEN <<"u2514", "u2500">>
                                 ELSE <<"u251C", "u2500">>
              ELSE <<SP>>
         ELSE IF last_child
              THEN IF fragment = "Prefix" THEN <<>> ELSE Spaces(5)
              ELSE IF fragment = "Prefix" THEN <<"u2502">> ELSE Spaces(3)

\* An is_prefix_whitespace that looks at the line only.
is_prefix_whitespace_any_child(edge, last_child, first_line) == ~first_line

\* EdgeConfig::is_prefix_whitespace
is_prefix_whitespace(edge, last_child, first_line) ==
  last_child /\ ~first_line

(***************************************************************************)
(* Unicode edge configs.  An EdgeStyle is <<"Solid", width>>,              *)
(* <<"Dashed", width, level>> or <<"Double">>; an Option is <<>> for None  *)
(* and <<v>> for Some(v).                                                  *)
(***************************************************************************)

EdgeWidths == {"Narrow", "Bold"}

DashLevels == {"Double", "Triple", "Quadruple"}

EdgeStyles ==
  {<<"Solid", w>> : w \in EdgeWidths}
  \cup {<<"Dashed", w, l>> : w \in EdgeWidths, l \in DashLevels}
  \cup {<<"Double">>}

CornerStyles == {"Angle", "Round"}

AmbiWidths == {"Single", "Double"}

\* impl Default for EdgeStyle
DefaultEdgeStyle == <<"Solid", "Narrow">>

\* impl Default for CornerStyle
DefaultCornerStyle == "Angle"

\* A collapse that forgets the width of a dashed line.
dashed_to_narrow(v) ==
  IF v[1] = "Solid" THEN <<"Solid", v[2]>>
  ELSE IF v[1] = "Dashed" THEN <<"Solid", "Narrow">>
  ELSE <<"Double">>

\* EdgeStyle::dashed_to_solid (From<EdgeStyle> for EdgeStyleWithoutDashed)
dashed_to_solid(v) ==
  IF v[1] = "Solid" \/ v[1] = "Dashed" THEN <<"Solid", v[2]>> ELSE <<"Double">>

\* preceding_first_first: the junction of a non-last item, if there is one.
preceding_first_first(vertical_backward, vertical_forward, horizontal) ==
  LET Narrow == <<"Solid", "Narrow">>
      Bold == <<"Solid", "Bold">>
      Double == <<"Double">>
      m == <<dashed_to_solid(vertical_backward),
             dashed_to_solid(vertical_forward),
             dashed_to_solid(horizontal)>>
  IN IF m = <<Narrow, Narrow, Narrow>> THEN <<"u251C">>
     ELSE IF m = <<Narrow, Narrow, Bold>> THEN <<"u251D">>
     ELSE IF m = <<Narrow, Narrow, Double>> THEN <<"u255E">>
     ELSE IF m = <<Narrow, Bold, Narrow>> THEN <<"u251F">>
     ELSE IF m = <<Narrow, Bold, Bold>> THEN <<"u2522">>
     ELSE IF m = <<Narrow, Bold, Double>> THEN <<>>
     ELSE IF m[1] = Narrow /\ m[2] = Double THEN <<>>
     ELSE IF m = <<Bold, Narrow, Narrow>> THEN <<"u251E">>
     ELSE IF m = <<Bold, Narrow, Bold>> THEN <<"u2521">>
     ELSE IF m = <<Bold, Narrow, Double>> THEN <<>>
     ELSE IF m = <<Bold, Bold, Narrow>> THEN <<"u2520">>
     ELSE IF m = <<Bold, Bold, Bold>> THEN <<"u2523">>
     ELSE IF m = <<Bold, Bold, Double>> THEN <<>>
     ELSE IF m[1] = Bold /\ m[2] = Double THEN <<>>
     ELSE IF m[1] = Double /\ m[2] \in {Narrow, Bold} THEN <<>>
     ELSE IF m = <<Double, Double, Narrow>> THEN <<"u255F">>
     ELSE IF m = <<Double, Double, Bold>> THEN <<>>
     ELSE <<"u2560">>

\* last_first_first: the corner of a last item, if there is one.
last_first_first(vertical_backward, horizontal, corner) ==
  LET Narrow == <<"Solid", "Narrow">>
      Bold == <<"Solid", "Bold">>
      Double == <<"Double">>
      a == dashed_to_solid(vertical_backward)
      b == dashed_to_solid(horizontal)
  IN IF a = Narrow /\ b = Narrow /\ corner = "Angle" THEN <<"u2514">>
     ELSE IF a = Narrow /\ b = Narrow /\ corner = "Round" THEN <<"u2570">>
     ELSE IF a = Narrow /\ b = Bold /\ corner = "Angle" THEN <<"u2515">>
     ELSE IF a = Narrow /\ b = Bold /\ corner = "Round" THEN <<>>
     ELSE IF a = Narrow /\ b = Double /\ corner = "Angle" THEN <<"u2558">>
     ELSE IF a = Narrow /\ b = Double /\ corner = "Round" THEN <<>>
     ELSE IF a = Bold /\ b = Narrow /\ corner = "Angle" THEN <<"u2516">>
     ELSE IF a = Bold /\ b = Narrow /\ corner = "Round" THEN <<>>
     ELSE IF a = Bold /\ b = Bold /\ corner = "Angle" THEN <<"u2517">>
     ELSE IF a = Bold /\ b = Bold /\ corner = "Round" THEN <<>>
     ELSE IF a = Bold /\ b = Double THEN <<>>
     ELSE IF a = Double /\ b = Narrow /\ corner = "Angle" THEN <<"u2559">>
     ELSE IF a = Double /\ b = Narrow /\ corner = "Round" THEN <<>>
     ELSE IF a = Double /\ b = Bold THEN <<>>
     ELSE IF a = Double /\ b = Double /\ corner = "Angle" THEN <<"u255A">>
     ELSE <<>>

\* preceding_succeeding_first: the vertical line of a non-last item.
preceding_succeeding_first(vertical_forward) ==
  CASE vertical_forward = <<"Solid", "Narrow">> -> <<"u2502">>
    [] vertical_forward = <<"Solid", "Bold">> -> <<"u2503">>
    [] vertical_forward = <<"Dashed", "Narrow", "Double">> -> <<"u254E">>
    [] vertical_forward = <<"Dashed", "Narrow", "Triple">> -> <<"u2506">>
    [] vertical_forward = <<"Dashed", "Narrow", "Quadruple">> -> <<"u250A">>
    [] vertical_forward = <<"Dashed", "Bold", "Double">> -> <<"u254F">>
    [] vertical_forward = <<"Dashed", "Bold", "Triple">> -> <<"u2507">>
    [] vertical_forward = <<"Dashed", "Bold", "Quadruple">> -> <<"u250B">>
    [] vertical_forward = <<"Double">> -> <<"u2551">>

\* A horizontal line table without the double line.
any_first_succeeding_no_double(horizontal) ==
  CASE horizontal = <<"Solid", "Narrow">> -> <<"u2500">>
    [] horizontal = <<"Solid", "Bold">> -> <<"u2501">>
    [] horizontal = <<"Dashed", "Narrow", "Double">> -> <<"u254C">>
    [] horizontal = <<"Dashed", "Narrow", "Triple">> -> <<"u2504">>
    [] horizontal = <<"Dashed", "Narrow", "Quadruple">> -> <<"u2508">>
    [] horizontal = <<"Dashed", "Bold", "Double">> -> <<"u254D">>
    [] horizontal = <<"Dashed", "Bold", "Triple">> -> <<"u2505">>
    [] horizontal = <<"Dashed", "Bold", "Quadruple">> -> <<"u2509">>
    [] horizontal = <<"Double">> -> <<>>

\* any_first_succeeding: the horizontal line of a first line.
any_first_succeeding(horizontal) ==
  CASE horizontal = <<"Solid", "Narrow">> -> <<"u2500">>
    [] horizontal = <<"Solid", "Bold">> -> <<"u2501">>
    [] horizontal = <<"Dashed", "Narrow", "Double">> -> <<"u254C">>
    [] horizontal = <<"Dashed", "Narrow", "Triple">> -> <<"u2504">>
    [] horizontal = <<"Dashed", "Narrow", "Quadruple">> -> <<"u2508">>
    [] horizontal = <<"Dashed", "Bold", "Double">> -> <<"u254D">>
    [] horizontal = <<"Dashed", "Bold", "Triple">> -> <<"u2505">>
    [] horizontal = <<"Dashed", "Bold", "Quadruple">> -> <<"u2509">>
    [] horizontal = <<"Double">> -> <<"u2550">>

\* UnicodeEdgeConfigBuilder::with_ambiwidth
with_ambiwidth(ambiwidth) ==
  [ambiwidth |-> ambiwidth,
   vertical_backward |-> DefaultEdgeStyle,
   vertical_forward |-> DefaultEdgeStyle,
   horizontal |-> DefaultEdgeStyle,
   corner |-> DefaultCornerStyle]

\* UnicodeEdgeConfigBuilder::vertical
vertical(b, style) ==
  [b EXCEPT !.vertical_backward = style, !.vertical_forward = style]

\* UnicodeEdgeConfigBuilder::vertical_backward
vertical_backward(b, style) == [b EXCEPT !.vertical_backward = style]

\* UnicodeEdgeConfigBuilder::vertical_forward
vertical_forward(b, style) == [b EXCEPT !.vertical_forward = style]

\* UnicodeEdgeConfigBuilder::horizontal
horizontal(b, style) == [b EXCEPT !.horizontal = style]

\* UnicodeEdgeConfigBuilder::corner
corner(b, c) == [b EXCEPT !.corner = c]

\* A build that has no junction for a dashed horizontal line.
build_rejects_dashes(b) ==
  LET pff == preceding_first_first(b.vertical_backward, b.vertical_forward,
                                   b.horizontal)
      lff == last_first_first(b.vertical_backward, b.horizontal, b.corner)
      psf == preceding_succeeding_first(b.vertical_forward)
      afs == any_first_succeeding(b.horizontal)
  IN IF pff = <<>> \/ lff = <<>> \/ b.horizontal[1] = "Dashed" THEN <<>>
     ELSE <<[ambiwidth |-> b.ambiwidth,
             preceding_first_first |-> pff[1],
             last_first_first |-> lff[1],
             any_first_succeeding |-> afs[1],
             preceding_succeeding_first |-> psf[1]]>>

\* A build that falls back on the solid narrow junctions.
build_with_fallback(b) ==
  LET pff == preceding_first_first(b.vertical_backward, b.vertical_forward,
                                   b.horizontal)
      lff == last_first_first(b.vertical_backward, b.horizontal, b.corner)
  IN <<[ambiwidth |-> b.ambiwidth,
        preceding_first_first |-> IF pff = <<>> THEN "u251C" ELSE pff[1],
        last_first_first |-> IF lff = <<>> THEN "u2514" ELSE lff[1],
        any_first_succeeding |-> any_first_succeeding(b.horizontal)[1],
        preceding_succeeding_first |->
          preceding_succeeding_first(b.vertical_forward)[1]]>>

\* UnicodeEdgeConfigBuilder::build: each lookup that has no glyph ends it
\* with None.
build(b) ==
  LET pff == preceding_first_first(b.vertical_backward, b.vertical_forward,
                                   b.horizontal)
      lff == last_first_first(b.vertical_backward, b.horizontal, b.corner)
      psf == preceding_succeeding_first(b.vertical_forward)
      afs == any_first_succeeding(b.horizontal)
  IN IF pff = <<>> THEN <<>>
     ELSE IF lff = <<>> THEN <<>>
     ELSE IF psf = <<>> THEN <<>>
     ELSE IF afs = <<>> THEN <<>>
     ELSE <<[ambiwidth |-> b.ambiwidth,
             preceding_first_first |-> pff[1],
             last_first_first |-> lff[1],
             any_first_succeeding |-> afs[1],
             preceding_succeeding_first |-> psf[1]]>>

\* UnicodeEdgeConfig::first_line_first_char
first_line_first_char(conf, last_child) ==
  IF last_child THEN conf.last_first_first ELSE conf.preceding_first_first

\* A write_edge whose double width padding is that of the single width.
Unicode_write_edge_calls_short_padding(conf, last_child, first_line, fragment) ==
  IF first_line
  THEN IF fragment = "Prefix"
       THEN IF conf.ambiwidth = "Single"
            THEN << <<first_line_first_char(conf, last_child)>>,
                    <<conf.any_first_succeeding>>,
                    <<conf.any_first_succeeding>> >>
            ELSE << <<first_line_first_char(conf, last_child)>>,
                    <<conf.any_first_succeeding>> >>
       ELSE << <<SP>> >>
  ELSE IF last_child
       THEN IF fragment = "Prefix" THEN << >> ELSE << Spaces(4) >>
       ELSE IF fragment = "Prefix"
            THEN << <<conf.preceding_succeeding_first>> >>
            ELSE << Spaces(3) >>

\* A write_edge that draws the horizontal line twice whatever the width.
Unicode_write_edge_calls_narrow(conf, last_child, first_line, fragment) ==
  IF first_line
  THEN IF fragment = "Prefix"
       THEN << <<first_line_first_char(conf, last_child)>>,
               <<conf.any_first_succeeding>>, <<conf.any_first_succeeding>> >>
       ELSE << <<SP>> >>
  ELSE IF last_child
       THEN IF fragment = "Prefix" THEN << >> ELSE << Spaces(4) >>
       ELSE IF fragment = "Prefix"
            THEN << <<conf.preceding_succeeding_first>> >>
            ELSE << Spaces(3) >>

\* UnicodeEdgeConfig::write_edge, as the strings it hands to the sink, one
\* per call of the sink (write! gives each character on its own).
Unicode_write_edge_calls(conf, last_child, first_line, fragment) ==
  IF first_line
  THEN IF fragment = "Prefix"
       THEN IF conf.ambiwidth = "Single"
            THEN << <<first_line_first_char(conf, last_child)>>,
                    <<conf.any_first_succeeding>>,
                    <<conf.any_first_succeeding>> >>
            ELSE << <<first_line_first_char(conf, last_child)>>,
                    <<conf.any_first_succeeding>> >>
       ELSE << <<SP>> >>
  ELSE IF last_child
       THEN IF fragment = "Prefix" THEN << >>
            ELSE IF conf.ambiwidth = "Single" THEN << Spaces(4) >>
            ELSE << Spaces(5) >>
       ELSE IF fragment = "Prefix"
            THEN << <<conf.preceding_succeeding_first>> >>
            ELSE << Spaces(3) >>

RECURSIVE Flatten(_)
Flatten(ss) == IF Len(ss) = 0 THEN <<>> ELSE Head(ss) \o Flatten(Tail(ss))

\* What UnicodeEdgeConfig::write_edge leaves in a sink that never fails.
Unicode_write_edge(conf, last_child, first_line, fragment) ==
  Flatten(Unicode_write_edge_calls(conf, last_child, first_line, fragment))

\* UnicodeEdgeConfig::is_prefix_whitespace
Unicode_is_prefix_whitespace(conf, last_child, first_line) ==
  last_child /\ ~first_line

(***************************************************************************)
(* Line splitter.                                                          *)
(***************************************************************************)

\* Index of the first NL of s, 0 when there is none.
RECURSIVE FirstNL(_, _)
FirstNL(s, i) ==
  IF i > Len(s) THEN 0
  ELSE IF s[i] = NL THEN i
  ELSE FirstNL(s, i + 1)

\* A line without the carriage return that preceded its line feed.
StripCR(l) ==
  IF Len(l) > 0 /\ l[Len(l)] = CR THEN SubSeq(l, 1, Len(l) - 1) ELSE l

\* A lines() that skips the empty lines.
RECURSIVE str_lines_skip_empty(_)
str_lines_skip_empty(s) ==
  IF Len(s) = 0 THEN <<>>
  ELSE LET i == FirstNL(s, 1)
       IN IF i = 0 THEN <<s>>
          ELSE (IF i = 1 THEN <<>> ELSE <<StripCR(SubSeq(s, 1, i - 1))>>)
               \o str_lines_skip_empty(SubSeq(s, i + 1, Len(s)))

\* <str>::lines(): split at "\n" or "\r\n"; the final line ending is optional.
RECURSIVE str_lines(_)
str_lines(s) ==
  IF Len(s) = 0 THEN <<>>
  ELSE LET i == FirstNL(s, 1)
       IN IF i = 0 THEN <<s>>
          ELSE <<StripCR(SubSeq(s, 1, i - 1))>>
               \o str_lines(SubSeq(s, i + 1, Len(s)))

\* lines_with_last_line_flag: the lines of s, each with its "last line" flag.
lines_with_last_line_flag(s) ==
  LET lines_raw == str_lines(s)
      emit_extra_line == Len(s) > 0 /\ s[Len(s)] = NL
      n == Len(lines_raw)
  IN [i \in 1..n |->
        [line |-> lines_raw[i],
         last |-> IF i < n THEN FALSE ELSE ~emit_extra_line]]
     \o (IF emit_extra_line THEN <<[line |-> <<>>, last |-> TRUE]>> ELSE <<>>)

\* An iterator that never notes a trailing newline.
LinesNew_no_flag(s) ==
  LET all == str_lines(s)
  IN [s |-> s,
      lines_raw |-> IF Len(all) = 0 THEN <<>> ELSE Tail(all),
      current |-> IF Len(all) = 0 THEN <<>> ELSE <<Head(all)>>,
      emit_extra_line |-> FALSE,
      out |-> <<>>,
      done |-> FALSE]

\* The iterator lines_with_last_line_flag returns, before its first item:
\* lines_raw is what <str>::lines() still holds, current the slice read ahead
\* (<<>> for None); out collects the items yielded, done is set by None.
LinesNew(s) ==
  LET all == str_lines(s)
  IN [s |-> s,
      lines_raw |-> IF Len(all) = 0 THEN <<>> ELSE Tail(all),
      current |-> IF Len(all) = 0 THEN <<>> ELSE <<Head(all)>>,
      emit_extra_line |-> Len(s) > 0 /\ s[Len(s)] = NL,
      out |-> <<>>,
      done |-> FALSE]

\* A next() that ends after the slice read ahead, whatever the text ends in.
LinesNext_no_extra(it) ==
  IF Len(it.lines_raw) > 0
  THEN [it EXCEPT !.lines_raw = Tail(@),
                  !.current = <<Head(it.lines_raw)>>,
                  !.out = Append(@, [line |-> it.current[1], last |-> FALSE,
                                     extra |-> FALSE])]
  ELSE IF Len(it.current) > 0
  THEN [it EXCEPT !.current = <<>>,
                  !.out = Append(@, [line |-> it.current[1],
                                     last |-> TRUE,
                                     extra |-> FALSE])]
  ELSE [it EXCEPT !.done = TRUE]

\* One call of next() on that iterator (the closure given to from_fn).
LinesNext(it) ==
  IF Len(it.lines_raw) > 0
  THEN [it EXCEPT !.lines_raw = Tail(@),
                  !.current = <<Head(it.lines_raw)>>,
                  !.out = Append(@, [line |-> it.current[1], last |-> FALSE,
                                     extra |-> FALSE])]
  ELSE IF Len(it.current) > 0
  THEN [it EXCEPT !.current = <<>>,
                  !.out = Append(@, [line |-> it.current[1],
                                     last |-> ~it.emit_extra_line,
                                     extra |-> FALSE])]
  ELSE IF it.emit_extra_line
  THEN [it EXCEPT !.emit_extra_line = FALSE,
                  !.out = Append(@, [line |-> <<>>, last |-> TRUE,
                                     extra |-> TRUE])]
  ELSE [it EXCEPT !.done = TRUE]

(***************************************************************************)
(* The writer context: the node stack, the sink and the outcome so far.    *)
(*   left  number of sink writes that still succeed (negative: unlimited)  *)
(*   st    "Ok", "Err" (the sink reported fmt::Error) or "Panic"           *)
(*   fails how often the sink reported fmt::Error                          *)
(*   line  the calls of write_prefix and write_padding since the printer   *)
(*         last wrote a newline, as <<node id, depth, fragment>>           *)
(*   firsts  the ids of the nodes for which write_prefix was called on     *)
(*         their first line, one entry per call                            *)
(***************************************************************************)

\* A sink that puts what it is given in front of what it holds.
SinkWrite_in_front(c, str) ==
  IF c.st # "Ok" THEN c
  ELSE IF c.left = 0 THEN [c EXCEPT !.st = "Err", !.fails = @ + 1]
  ELSE [c EXCEPT !.buf = str \o @,
                 !.left = IF @ < 0 THEN @ ELSE @ - 1,
                 !.line = IF str = <<NL>> THEN <<>> ELSE @]

\* fmt::Write::write_str / write_char of the sink, once per call.
SinkWrite(c, str) ==
  IF c.st # "Ok" THEN c
  ELSE IF c.left = 0 THEN [c EXCEPT !.st = "Err", !.fails = @ + 1]
  ELSE [c EXCEPT !.buf = @ \o str,
                 !.left = IF @ < 0 THEN @ ELSE @ - 1,
                 !.line = IF str = <<NL>> THEN <<>> ELSE @]

\* ItemWriterState::new
NewItemState(is_last_child, edge, id) ==
  [is_last_child |-> is_last_child, edge |-> edge,
   at_first_line |-> TRUE, edge_status |-> "LineStart", id |-> id]

\* ItemWriterState::is_at_line_head
is_at_line_head(state) == state.edge_status = "LineStart"

\* A write_padding that leaves the status at PrefixEmitted.
write_padding_keeps_status(c, i) ==
  IF c.st # "Ok" THEN c
  ELSE IF c.states[i].edge_status # "PrefixEmitted"
  THEN [c EXCEPT !.st = "Panic"]
  ELSE LET s == c.states[i]
       IN SinkWrite([c EXCEPT !.line = Append(@, <<s.id, i, "Padding">>)],
                    write_edge(s.edge, s.is_last_child, s.at_first_line, "Padding"))

\* A write_padding that draws every depth in the style of the innermost node.
write_padding_top_style(c, i) ==
  IF c.st # "Ok" THEN c
  ELSE IF c.states[i].edge_status # "PrefixEmitted"
  THEN [c EXCEPT !.st = "Panic"]
  ELSE LET s == c.states[i]
           t == c.states[Len(c.states)]
       IN SinkWrite([c EXCEPT !.states[i].edge_status = "PaddingEmitted",
                           !.line = Append(@, <<s.id, i, "Padding">>)],
                    write_edge(t.edge, s.is_last_child, s.at_first_line, "Padding"))

\* ItemWriterState::write_padding for the state at depth i
write_padding(c, i) ==
  IF c.st # "Ok" THEN c
  ELSE IF c.states[i].edge_status # "PrefixEmitted"
  THEN [c EXCEPT !.st = "Panic"]
  ELSE LET s == c.states[i]
       IN SinkWrite([c EXCEPT !.states[i].edge_status = "PaddingEmitted",
                           !.line = Append(@, <<s.id, i, "Padding">>)],
                    write_edge(s.edge, s.is_last_child, s.at_first_line, "Padding"))

\* A write_prefix that draws the first-line form on every line.
write_prefix_junction_always(c, i, emit_trailing_whitespace) ==
  IF c.st # "Ok" THEN c
  ELSE IF c.states[i].edge_status # "LineStart"
  THEN [c EXCEPT !.st = "Panic"]
  ELSE LET s == c.states[i]
           padded(c1) ==
             IF emit_trailing_whitespace THEN write_padding(c1, i) ELSE c1
       IN padded(SinkWrite([c EXCEPT !.states[i].edge_status = "PrefixEmitted",
                                  !.line = Append(@, <<s.id, i, "Prefix">>),
                                  !.firsts = Append(@, s.id)],
                           write_edge(s.edge, s.is_last_child, TRUE, "Prefix")))

\* ItemWriterState::write_prefix for the state at depth i
write_prefix(c, i, emit_trailing_whitespace) ==
  IF c.st # "Ok" THEN c
  ELSE IF c.states[i].edge_status # "LineStart"
  THEN [c EXCEPT !.st = "Panic"]
  ELSE LET s == c.states[i]
           padded(c1) ==
             IF emit_trailing_whitespace THEN write_padding(c1, i) ELSE c1
       IN padded(SinkWrite([c EXCEPT !.states[i].edge_status = "PrefixEmitted",
                                  !.line = Append(@, <<s.id, i, "Prefix">>),
                                  !.firsts = IF s.at_first_line
                                             THEN Append(@, s.id) ELSE @],
                           write_edge(s.edge, s.is_last_child, s.at_first_line,
                                      "Prefix")))

\* A reset that forgets to leave the first line.
reset_state_keeps_first_line(state) ==
  [state EXCEPT !.edge_status = "LineStart"]

\* ItemWriterState::reset_line_state
reset_state(state) ==
  [state EXCEPT !.at_first_line = FALSE, !.edge_status = "LineStart"]

\* A reset of the innermost node alone.
reset_line_state_top_only(c) ==
  [c EXCEPT !.states = [i \in 1..Len(c.states) |->
                          IF i = Len(c.states) THEN reset_state(c.states[i])
                          ELSE c.states[i]]]

\* ItemWriter::reset_line_state
reset_line_state(c) ==
  [c EXCEPT !.states = [i \in 1..Len(c.states) |-> reset_state(c.states[i])]]

\* rposition of the deepest state whose prefix is not whitespace (0: none).
RECURSIVE rposition(_, _)
rposition(states, i) ==
  IF i = 0 THEN 0
  ELSE IF ~is_prefix_whitespace(states[i].edge, states[i].is_last_child,
                                states[i].at_first_line)
  THEN i
  ELSE rposition(states, i - 1)

\* The padding is written whatever the line holds.
emit_last_padding_always(emit_trailing_whitespace, line_is_empty) == TRUE

\* The padding is written for lines with content only, whatever the option.
emit_last_padding_content_only(emit_trailing_whitespace, line_is_empty) ==
  ~line_is_empty

\* Whether the padding of the deepest drawn depth is written now.
emit_last_padding(emit_trailing_whitespace, line_is_empty) ==
  emit_trailing_whitespace \/ ~line_is_empty

\* Every depth is drawn on every line.
last_index_always_top(states, emit_trailing_whitespace, line_is_empty) ==
  Len(states)

\* The deepest depth whose prefix is drawn on this line (0: none).
last_non_omissible_prefix_index(states, emit_trailing_whitespace, line_is_empty) ==
  IF emit_last_padding(emit_trailing_whitespace, line_is_empty)
  THEN Len(states)
  ELSE rposition(states, Len(states))

\* Prefix and padding of one depth, written whatever the depth has out.
prefix_then_padding_unguarded(c, i, emit_trailing_whitespace) ==
  LET padding(c1) ==
        IF c1.st = "Ok" /\ c1.states[i].edge_status = "PrefixEmitted"
        THEN write_padding(c1, i) ELSE c1
  IN padding(write_prefix(c, i, emit_trailing_whitespace))

\* Prefix and padding of one depth above the last drawn one.
prefix_then_padding(c, i, emit_trailing_whitespace) ==
  LET padding(c1) ==
        IF c1.st = "Ok" /\ c1.states[i].edge_status = "PrefixEmitted"
        THEN write_padding(c1, i) ELSE c1
      emitted(c2) ==
        IF c2.st = "Ok" /\ c2.states[i].edge_status # "PaddingEmitted"
        THEN [c2 EXCEPT !.st = "Panic"] ELSE c2
  IN emitted(padding(IF c.st = "Ok" /\ c.states[i].edge_status = "LineStart"
                     THEN write_prefix(c, i, emit_trailing_whitespace)
                     ELSE c))

\* states.iter_mut().take(idx).try_for_each(...): depths i .. idx - 1.
RECURSIVE take_for_each(_, _, _, _)
take_for_each(c, i, idx, emit_trailing_whitespace) ==
  IF i >= idx \/ c.st # "Ok" THEN c
  ELSE take_for_each(prefix_then_padding(c, i, emit_trailing_whitespace),
                     i + 1, idx, emit_trailing_whitespace)

\* ItemWriter::write_prefix_and_padding
write_prefix_and_padding(c, opts, line_is_empty) ==
  IF c.st # "Ok" \/ Len(c.states) = 0 THEN c
  ELSE LET etw == opts.emit_trailing_whitespace
           last_padding(c2, idx) ==
             IF c2.st = "Ok" /\ c2.states[idx].edge_status = "PrefixEmitted"
                /\ emit_last_padding(etw, line_is_empty)
             THEN write_padding(c2, idx) ELSE c2
           last_prefix(c1, idx) ==
             last_padding(IF c1.st = "Ok"
                             /\ c1.states[idx].edge_status = "LineStart"
                          THEN write_prefix(c1, idx, etw) ELSE c1, idx)
           upto(idx) ==
             IF idx = 0 THEN c
             ELSE last_prefix(take_for_each(c, 1, idx, etw), idx)
       IN upto(last_non_omissible_prefix_index(c.states, etw, line_is_empty))

\* One round of the loop of write_str, for a slice that is processed.
write_line(c, opts, l) ==
  LET reset(c3) == IF c3.st = "Ok" THEN reset_line_state(c3) ELSE c3
      newline(c2) == IF l.last THEN c2 ELSE reset(SinkWrite(c2, <<NL>>))
  IN newline(SinkWrite(write_prefix_and_padding(c, opts, Len(l.line) = 0),
                       l.line))

\* The loop of write_str without its early exit on the empty last slice.
RECURSIVE write_lines_no_break(_, _, _, _)
write_lines_no_break(c, opts, ls, i) ==
  IF i > Len(ls) \/ c.st # "Ok" THEN c
  ELSE write_lines_no_break(write_line(c, opts, ls[i]), opts, ls, i + 1)

\* The loop of write_str over the slices i .. Len(ls).
RECURSIVE write_lines(_, _, _, _)
write_lines(c, opts, ls, i) ==
  IF i > Len(ls) \/ c.st # "Ok" THEN c
  ELSE IF ls[i].last /\ Len(ls[i].line) = 0 THEN c
  ELSE write_lines(write_line(c, opts, ls[i]), opts, ls, i + 1)

\* A write_str that draws the prefixes at once, even for an empty text.
write_str_eager(c, opts, s) ==
  IF s = <<>> THEN write_prefix_and_padding(c, opts, TRUE)
  ELSE write_lines(c, opts, lines_with_last_line_flag(s), 1)

\* <ItemWriter as fmt::Write>::write_str
write_str(c, opts, s) ==
  write_lines(c, opts, lines_with_last_line_flag(s), 1)

\* A go_to_next_line that writes its newline wherever the cursor is.
go_to_next_line_always(c, opts) ==
  IF c.st # "Ok" THEN c
  ELSE IF Len(c.states) = 0 THEN [c EXCEPT !.st = "Panic"]
  ELSE LET at_head(c1) ==
             IF c1.st = "Ok" /\ ~is_at_line_head(c1.states[Len(c1.states)])
             THEN [c1 EXCEPT !.st = "Panic"] ELSE c1
       IN at_head(write_str(c, opts, <<NL>>))

\* A go_to_next_line that starts the line over before it writes the newline.
go_to_next_line_redraw(c, opts) ==
  IF c.st # "Ok" THEN c
  ELSE IF Len(c.states) = 0 THEN [c EXCEPT !.st = "Panic"]
  ELSE IF ~is_at_line_head(c.states[Len(c.states)])
  THEN write_str(reset_line_state(c), opts, <<NL>>) ELSE c

\* ItemWriter::go_to_next_line
go_to_next_line(c, opts) ==
  IF c.st # "Ok" THEN c
  ELSE IF Len(c.states) = 0 THEN [c EXCEPT !.st = "Panic"]
  ELSE LET at_head(c1) ==
             IF c1.st = "Ok" /\ ~is_at_line_head(c1.states[Len(c1.states)])
             THEN [c1 EXCEPT !.st = "Panic"] ELSE c1
       IN at_head(IF ~is_at_line_head(c.states[Len(c.states)])
                  THEN write_str(c, opts, <<NL>>) ELSE c)

(***************************************************************************)
(* Tree printer.                                                           *)
(***************************************************************************)

\* An open_node that starts a new line whenever the sink does not end in one.
open_node_push_fresh(c, opts, style, id) ==
  LET push(c1) ==
        IF c1.st # "Ok" THEN c1
        ELSE [c1 EXCEPT !.states =
                Append(@, NewItemState(style.is_last_child, style.edge, id))]
      fresh(c0) ==
        IF Len(c0.buf) > 0 /\ c0.buf[Len(c0.buf)] # NL
        THEN SinkWrite(c0, <<NL>>) ELSE c0
  IN push(IF Len(c.states) # 0 THEN go_to_next_line(c, opts) ELSE fresh(c))

\* open_node up to the push: move to a fresh line, then push the new state.
open_node_push(c, opts, style, id) ==
  LET push(c1) ==
        IF c1.st # "Ok" THEN c1
        ELSE [c1 EXCEPT !.states =
                Append(@, NewItemState(style.is_last_child, style.edge, id))]
  IN push(IF Len(c.states) # 0 THEN go_to_next_line(c, opts) ELSE c)

\* An open_node that takes its state off the stack again when the write of
\* the content fails.
open_node_pops_on_error(c, opts, style, id, content) ==
  LET undo(c1) ==
        IF c1.st = "Err" /\ Len(c1.states) > Len(c.states)
        THEN [c1 EXCEPT !.states = SubSeq(@, 1, Len(c.states))] ELSE c1
  IN undo(write_str(open_node_push(c, opts, style, id), opts, content))

\* TreePrinter::open_node
open_node(c, opts, style, id, content) ==
  write_str(open_node_push(c, opts, style, id), opts, content)

\* A write_fmt that takes every piece for the start of a new line.
RECURSIVE write_fmt_fresh(_, _, _, _)
write_fmt_fresh(c, opts, pieces, i) ==
  IF i > Len(pieces) \/ c.st # "Ok" THEN c
  ELSE write_fmt_fresh(reset_line_state(write_str(c, opts, pieces[i])),
                       opts, pieces, i + 1)

\* fmt::Write::write_fmt for a value whose Display writes the pieces
\* i .. Len(pieces) one after the other, each with one write_str.
RECURSIVE write_fmt(_, _, _, _)
write_fmt(c, opts, pieces, i) ==
  IF i > Len(pieces) \/ c.st # "Ok" THEN c
  ELSE write_fmt(write_str(c, opts, pieces[i]), opts, pieces, i + 1)

\* TreePrinter::open_node for a content that is written in pieces
open_node_pieces(c, opts, style, id, pieces) ==
  write_fmt(open_node_push(c, opts, style, id), opts, pieces, 1)

\* A pop that leaves the stack as it is.
pop_nothing(states) == states

\* Vec::pop
pop(states) == SubSeq(states, 1, Len(states) - 1)

\* A close_node that accepts a close on the empty stack without an error.
close_node_lenient(c, opts) ==
  IF c.st # "Ok" \/ Len(c.states) = 0 THEN c
  ELSE LET popped(c1) ==
             IF c1.st # "Ok" THEN c1
             ELSE [c1 EXCEPT !.states = pop(@),
                             !.closed = Append(@, c1.states[Len(c1.states)].id)]
       IN popped(IF opts.emit_trailing_newline
                 THEN go_to_next_line(c, opts) ELSE c)

\* A close_node that pops whether or not the sink took the newline.
close_node_swallows(c, opts) ==
  IF c.st # "Ok" THEN c
  ELSE IF Len(c.states) = 0 THEN [c EXCEPT !.st = "ExtraNodeClose"]
  ELSE LET popped(c1) ==
             IF c1.st = "Panic" THEN c1
             ELSE [c1 EXCEPT !.st = "Ok",
                             !.states = pop(@),
                             !.closed = Append(@, c1.states[Len(c1.states)].id)]
       IN popped(IF opts.emit_trailing_newline
                 THEN go_to_next_line(c, opts) ELSE c)

\* A close_node that pops without moving to a fresh line.
close_node_no_newline(c, opts) ==
  IF c.st # "Ok" THEN c
  ELSE IF Len(c.states) = 0 THEN [c EXCEPT !.st = "ExtraNodeClose"]
  ELSE [c EXCEPT !.states = pop(@),
                 !.closed = Append(@, c.states[Len(c.states)].id)]

\* A close_node that moves to a fresh line whatever the option says.
close_node_always_newline(c, opts) ==
  IF c.st # "Ok" THEN c
  ELSE IF Len(c.states) = 0 THEN [c EXCEPT !.st = "ExtraNodeClose"]
  ELSE LET popped(c1) ==
             IF c1.st # "Ok" THEN c1
             ELSE [c1 EXCEPT !.states = pop(@),
                             !.closed = Append(@, c1.states[Len(c1.states)].id)]
       IN popped(go_to_next_line(c, opts))

\* TreePrinter::close_node
close_node(c, opts) ==
  IF c.st # "Ok" THEN c
  ELSE IF Len(c.states) = 0 THEN [c EXCEPT !.st = "ExtraNodeClose"]
  ELSE LET popped(c1) ==
             IF c1.st # "Ok" THEN c1
             ELSE [c1 EXCEPT !.states = pop(@),
                             !.closed = Append(@, c1.states[Len(c1.states)].id)]
       IN popped(IF opts.emit_trailing_newline
                 THEN go_to_next_line(c, opts) ELSE c)

\* for _ in 0..n { self.close_node()?; }
RECURSIVE close_times(_, _, _)
close_times(c, opts, n) ==
  IF n = 0 \/ c.st # "Ok" THEN c
  ELSE close_times(close_node(c, opts), opts, n - 1)

\* A finalize that closes the innermost node only.
finalize_top_only(c, opts) ==
  LET emptied(c1) ==
        IF c1.st = "Ok" /\ Len(c1.states) # 0
        THEN [c1 EXCEPT !.st = "Panic"] ELSE c1
  IN emptied(close_times(c, opts, IF Len(c.states) = 0 THEN 0 ELSE 1))

\* A finalize that ends the tree with a newline of its own.
finalize_with_newline(c, opts) ==
  LET emptied(c2) ==
        IF c2.st = "Ok" /\ Len(c2.states) # 0
        THEN [c2 EXCEPT !.st = "Panic"] ELSE c2
      newline(c1) ==
        IF opts.emit_trailing_newline THEN SinkWrite(c1, <<NL>>) ELSE c1
  IN emptied(newline(close_times(c, opts, Len(c.states))))

\* TreePrinter::finalize
finalize(c, opts) ==
  LET emptied(c1) ==
        IF c1.st = "Ok" /\ Len(c1.states) # 0
        THEN [c1 EXCEPT !.st = "Panic"] ELSE c1
  IN emptied(close_times(c, opts, Len(c.states)))

(***************************************************************************)
(* State.                                                                  *)
(*   writer  the content of the sink                                            *)
(*   left    sink writes that still succeed (negative: the sink never      *)
(*           fails)                                                        *)
(*   opts    TreeConfig                                                    *)
(*   states  the node stack, root's child first                            *)
(*   alive   FALSE once finalize consumed the printer                      *)
(*   env     what the caller draws its arguments from: edge styles, texts, *)
(*           and how many open_node / close_node calls it makes            *)
(*   nOpen, nClose   successful open_node / close_node calls (those that   *)
(*           finalize makes included)                                      *)
(*   nOps    calls of open_node / close_node                               *)
(*   lines   an iterator of lines_with_last_line_flag run on its own       *)
(*   builder a UnicodeEdgeConfigBuilder                                    *)
(*   uconf   whether build was called on it, and what it returned          *)
(*   drawn   the last prefix and padding drawn from a glyph table          *)
(*   last    the last call: its arguments, the state before it, the        *)
(*           context after its move to a fresh line, its result, in how    *)
(*           many calls so far the sink has failed, and where the text was *)
(*           split when it came in two pieces (-1: in one piece)           *)
(***************************************************************************)
VARIABLES writer, left, opts, states, alive, env, nOpen, nClose, nOps, last,
          lines, builder, uconf, drawn

vars == <<writer, left, opts, states, alive, env, nOpen, nClose, nOps, last,
          lines, builder, uconf, drawn>>

printerVars ==
  <<writer, left, opts, states, alive, env, nOpen, nClose, nOps, last>>

edgeVars == <<builder, uconf, drawn>>

NotBuilt == [called |-> FALSE, conf |-> <<>>]

NoDraw ==
  [edge |-> "none", last_child |-> FALSE, first_line |-> FALSE,
   prefix |-> <<>>, padding |-> <<>>]

\* No glyph table is used on its own.
NoEdges ==
  /\ builder = with_ambiwidth("Single")
  /\ uconf = NotBuilt
  /\ drawn = NoDraw

TreeConfigs ==
  [emit_trailing_whitespace : BOOLEAN, emit_trailing_newline : BOOLEAN]

\* impl Default for TreeConfig
DefaultConfig ==
  [emit_trailing_whitespace |-> FALSE, emit_trailing_newline |-> TRUE]

NoStyle == [is_last_child |-> FALSE, edge |-> "Ascii"]

NoCall ==
  [op |-> "none", res |-> "Ok", style |-> NoStyle, content |-> <<>>,
   pre |-> <<>>, preBuf |-> <<>>, mid |-> <<>>, midBuf |-> <<>>,
   closed |-> <<>>, fails |-> 0, line |-> <<>>, firsts |-> <<>>,
   errs |-> 0, split |-> -1]

Ctx == [states |-> states, buf |-> writer, left |-> left, st |-> "Ok",
        closed |-> <<>>, fails |-> 0, line |-> last.line,
        firsts |-> last.firsts]

\* TreePrinter::new, for a caller that uses the edge styles es and the texts
\* ts in at most n calls of open_node / close_node
InitWith(cfgs, es, ts, n) ==
  /\ writer = Seed
  /\ left = -1
  /\ opts \in cfgs
  /\ states = <<>>
  /\ alive = TRUE
  /\ env \in {[edges |-> e, texts |-> ts, calls |-> n] : e \in es}
  /\ nOpen = 0
  /\ nClose = 0
  /\ nOps = 0
  /\ last = NoCall
  /\ lines = LinesNew(<<>>)
  /\ NoEdges

Init == InitWith(TreeConfigs, {{e} : e \in Edges}, Contents, MaxOps)

Succ(n, st) == IF st = "Ok" THEN n + 1 ELSE n

OpenNode ==
  /\ alive
  /\ nOps < env.calls
  /\ \E is_last \in BOOLEAN, edge \in env.edges, content \in env.texts :
       LET style == [is_last_child |-> is_last, edge |-> edge]
           m == open_node_push(Ctx, opts, style, nOps + 1)
           c == open_node(Ctx, opts, style, nOps + 1, content)
       IN /\ writer' = c.buf
          /\ left' = c.left
          /\ states' = c.states
          /\ nOpen' = Succ(nOpen, c.st)
          /\ last' = [op |-> "open", res |-> c.st, style |-> style,
                      content |-> content, pre |-> states, preBuf |-> writer,
                      mid |-> m.states, midBuf |-> m.buf, closed |-> <<>>,
                      fails |-> c.fails, line |-> c.line,
                    firsts |-> c.firsts,
                    errs |-> last.errs + (IF c.st = "Err" THEN 1 ELSE 0), split |-> -1]
  /\ nOps' = nOps + 1
  /\ UNCHANGED <<opts, alive, env, nClose, lines, edgeVars>>

CloseNode ==
  /\ alive
  /\ nOps < env.calls
  /\ LET c == close_node(Ctx, opts)
     IN /\ writer' = c.buf
        /\ left' = c.left
        /\ states' = c.states
        /\ nClose' = Succ(nClose, c.st)
        /\ last' = [op |-> "close", res |-> c.st, style |-> NoStyle,
                    content |-> <<>>, pre |-> states, preBuf |-> writer,
                    mid |-> <<>>, midBuf |-> <<>>, closed |-> c.closed,
                    fails |-> c.fails, line |-> c.line,
                    firsts |-> c.firsts,
                    errs |-> last.errs + (IF c.st = "Err" THEN 1 ELSE 0), split |-> -1]
  /\ nOps' = nOps + 1
  /\ UNCHANGED <<opts, alive, env, nOpen, lines, edgeVars>>

Finalize ==
  /\ alive
  /\ LET c == finalize(Ctx, opts)
     IN /\ writer' = c.buf
        /\ left' = c.left
        /\ states' = c.states
        /\ nClose' = nClose + Len(c.closed)
        /\ last' = [op |-> "finalize", res |-> c.st, style |-> NoStyle,
                    content |-> <<>>, pre |-> states, preBuf |-> writer,
                    mid |-> <<>>, midBuf |-> <<>>, closed |-> c.closed,
                    fails |-> c.fails, line |-> c.line,
                    firsts |-> c.firsts,
                    errs |-> last.errs + (IF c.st = "Err" THEN 1 ELSE 0), split |-> -1]
  /\ alive' = FALSE
  /\ UNCHANGED <<opts, env, nOpen, nOps, lines, edgeVars>>

Next == OpenNode \/ CloseNode \/ Finalize

Spec == Init /\ [][Next]_vars

\* The same printer for a caller whose texts hold carriage returns.
InitCR == InitWith(TreeConfigs, {{"Ascii"}}, ContentsCR, MaxOps)

SpecCR == InitCR /\ [][Next]_vars

\* The same printer for a caller that makes one call more, with short texts.
InitLong == InitWith(TreeConfigs, {{"Ascii"}}, ContentsShort, MaxOps + 1)

SpecLong == InitLong /\ [][Next]_vars

\* open_node with a content whose Display writes it in two pieces.
OpenNodePieces ==
  /\ alive
  /\ nOps < env.calls
  /\ \E is_last \in BOOLEAN, edge \in env.edges, content \in env.texts :
       \E k \in 0..Len(content) :
          LET style == [is_last_child |-> is_last, edge |-> edge]
              pieces == <<SubSeq(content, 1, k),
                          SubSeq(content, k + 1, Len(content))>>
              m == open_node_push(Ctx, opts, style, nOps + 1)
              c == open_node_pieces(Ctx, opts, style, nOps + 1, pieces)
          IN /\ writer' = c.buf
             /\ left' = c.left
             /\ states' = c.states
             /\ nOpen' = Succ(nOpen, c.st)
             /\ last' = [op |-> "open", res |-> c.st, style |-> style,
                         content |-> content, pre |-> states,
                         preBuf |-> writer, mid |-> m.states,
                         midBuf |-> m.buf, closed |-> <<>>,
                         fails |-> c.fails, line |-> c.line,
                         firsts |-> c.firsts,
                         errs |-> last.errs + (IF c.st = "Err" THEN 1 ELSE 0), split |-> k]
  /\ nOps' = nOps + 1
  /\ UNCHANGED <<opts, alive, env, nClose, lines, edgeVars>>

NextPieces == OpenNodePieces \/ CloseNode \/ Finalize

\* The printer for a caller whose contents are written in two pieces.
InitPieces == InitWith(TreeConfigs, {{"Ascii"}}, Contents, MaxOps - 1)

SpecPieces == InitPieces /\ [][NextPieces]_vars

\* The same printer on a sink that accepts a number of writes, chosen when
\* the printer is made, and reports an error for every write after them.
InitBroken ==
  /\ writer = Seed
  /\ left \in -1..MaxLeft
  /\ opts \in TreeConfigs
  /\ states = <<>>
  /\ alive = TRUE
  /\ env = [edges |-> {"Ascii"}, texts |-> ContentsShort, calls |-> MaxOps]
  /\ nOpen = 0
  /\ nClose = 0
  /\ nOps = 0
  /\ last = NoCall
  /\ lines = LinesNew(<<>>)
  /\ NoEdges

SpecBroken == InitBroken /\ [][Next]_vars

\* The same printer for a caller that mixes two edge styles in one tree.
InitMix ==
  InitWith(TreeConfigs, {{"Ascii", "UnicodeDoubleWidth"}}, ContentsShort, MaxOps)

SpecMix == InitMix /\ [][Next]_vars

\* The same printer on a sink that may fail: it accepts left more writes
\* (any number if left is negative) and reports an error from then on, until
\* its owner changes that between two calls.
InitFail == InitWith(TreeConfigs, {{"Ascii"}}, ContentsShort, MaxOps - 1)

SinkChange ==
  /\ alive
  /\ \E n \in -1..MaxLeft : n # left /\ left' = n
  /\ UNCHANGED <<writer, opts, states, alive, env, nOpen, nClose, nOps, last,
                 lines, edgeVars>>

NextFail == Next \/ SinkChange

SpecFail == InitFail /\ [][NextFail]_vars

\* The characters of the texts given to the line splitter on its own.
Alphabet == {"a", NL, CR}

Strs == UNION {[1..n -> Alphabet] : n \in 0..MaxLen}

\* No printer is at work.
NoPrinter ==
  /\ writer = Seed
  /\ left = -1
  /\ opts = DefaultConfig
  /\ states = <<>>
  /\ alive = FALSE
  /\ env = [edges |-> {}, texts |-> {}, calls |-> 0]
  /\ nOpen = 0
  /\ nClose = 0
  /\ nOps = 0
  /\ last = NoCall

\* lines_with_last_line_flag(s) for a text s, with no printer at work.
InitLines ==
  /\ lines \in {LinesNew(s) : s \in Strs}
  /\ NoPrinter
  /\ NoEdges

\* The consumer asks the iterator for its next item.
LinesStep ==
  /\ ~lines.done
  /\ lines' = LinesNext(lines)
  /\ UNCHANGED <<printerVars, edgeVars>>

NextLines == LinesStep

SpecLines == InitLines /\ [][NextLines]_vars

\* UnicodeEdgeConfigBuilder::with_ambiwidth, with no printer at work.
InitEdges ==
  /\ builder \in {with_ambiwidth(w) : w \in AmbiWidths}
  /\ uconf = NotBuilt
  /\ drawn = NoDraw
  /\ lines = LinesNew(<<>>)
  /\ NoPrinter

Vertical ==
  /\ ~uconf.called
  /\ \E style \in EdgeStyles : builder' = vertical(builder, style)
  /\ UNCHANGED <<printerVars, lines, uconf, drawn>>

VerticalBackward ==
  /\ ~uconf.called
  /\ \E style \in EdgeStyles : builder' = vertical_backward(builder, style)
  /\ UNCHANGED <<printerVars, lines, uconf, drawn>>

VerticalForward ==
  /\ ~uconf.called
  /\ \E style \in EdgeStyles : builder' = vertical_forward(builder, style)
  /\ UNCHANGED <<printerVars, lines, uconf, drawn>>

Horizontal ==
  /\ ~uconf.called
  /\ \E style \in EdgeStyles : builder' = horizontal(builder, style)
  /\ UNCHANGED <<printerVars, lines, uconf, drawn>>

Corner ==
  /\ ~uconf.called
  /\ \E c \in CornerStyles : builder' = corner(builder, c)
  /\ UNCHANGED <<printerVars, lines, uconf, drawn>>

\* The builder is used once.
Build ==
  /\ ~uconf.called
  /\ uconf' = [called |-> TRUE, conf |-> build(builder)]
  /\ UNCHANGED <<printerVars, lines, builder, drawn>>

\* The prefix and the padding of one position, from a fixed table.
WriteEdge ==
  /\ \E edge \in Edges, last_child \in BOOLEAN, first_line \in BOOLEAN :
       drawn' = [edge |-> edge, last_child |-> last_child,
                 first_line |-> first_line,
                 prefix |-> write_edge(edge, last_child, first_line, "Prefix"),
                 padding |-> write_edge(edge, last_child, first_line, "Padding")]
  /\ UNCHANGED <<printerVars, lines, builder, uconf>>

\* The prefix and the padding of one position, from the config that was built.
UnicodeWriteEdge ==
  /\ uconf.called
  /\ uconf.conf # <<>>
  /\ \E last_child \in BOOLEAN, first_line \in BOOLEAN :
       drawn' = [edge |-> "Unicode", last_child |-> last_child,
                 first_line |-> first_line,
                 prefix |-> Unicode_write_edge(uconf.conf[1], last_child,
                                               first_line, "Prefix"),
                 padding |-> Unicode_write_edge(uconf.conf[1], last_child,
                                                first_line, "Padding")]
  /\ UNCHANGED <<printerVars, lines, builder, uconf>>

NextEdges ==
  \/ Vertical
  \/ VerticalBackward
  \/ VerticalForward
  \/ Horizontal
  \/ Corner
  \/ Build
  \/ WriteEdge
  \/ UnicodeWriteEdge

SpecEdges == InitEdges /\ [][NextEdges]_vars

(***************************************************************************)
(* Properties.                                                             *)
(***************************************************************************)

\* What the printer appended to the sink so far.
Written == SubSeq(writer, Len(Seed) + 1, Len(writer))

\* What the last call appended to the sink.
Out == SubSeq(writer, Len(last.preBuf) + 1, Len(writer))

\* What the last open_node wrote after it pushed the node: the node's text.
NodeText == SubSeq(writer, Len(last.midBuf) + 1, Len(writer))

RECURSIVE Reverse(_)
Reverse(s) == IF Len(s) = 0 THEN <<>> ELSE Append(Reverse(Tail(s)), Head(s))

Ids(sts) == [i \in 1..Len(sts) |-> sts[i].id]

\* C1: the length of the node stack equals the number of successful
\* open_node calls minus the number of successful close_node calls, and is
\* never negative.
C1_StackLength ==
  /\ nOpen >= nClose
  /\ Len(states) = nOpen - nClose

C1_Witness ==
  /\ nOpen = 2
  /\ nClose = 1
  /\ Len(states) = 1
  /\ last.op = "close"

\* C2: close_node on the empty stack returns ExtraNodeClose, writes nothing
\* and leaves the stack empty, whatever emit_trailing_newline is.
C2_ExtraClose ==
  (last.op = "close" /\ Len(last.pre) = 0) =>
     /\ last.res = "ExtraNodeClose"
     /\ writer = last.preBuf
     /\ states = <<>>

C2_Witness ==
  /\ last.op = "close"
  /\ Len(last.pre) = 0
  /\ last.res = "ExtraNodeClose"
  /\ opts.emit_trailing_newline
  /\ nOpen = 1
  /\ nClose = 1

\* C3: finalize succeeds, closes every node that is still open, the most
\* recently opened first, and leaves the stack empty; the sink it returns is
\* the sink as the closes left it.
C3_Finalize ==
  last.op = "finalize" =>
     /\ last.res = "Ok"
     /\ states = <<>>
     /\ last.closed = Reverse(Ids(last.pre))
     /\ ~alive

C3_Witness ==
  /\ last.op = "finalize"
  /\ Len(last.pre) = 3
  /\ last.res = "Ok"
  /\ last.closed = <<3, 2, 1>>

\* C4: finalize on a printer whose nodes are all closed writes nothing: the
\* sink it returns is the sink as it was before the call.
C4_FinalizeNoop ==
  (last.op = "finalize" /\ Len(last.pre) = 0) =>
     /\ last.res = "Ok"
     /\ writer = last.preBuf

C4_Witness ==
  /\ last.op = "finalize"
  /\ Len(last.pre) = 0
  /\ nOpen = 1
  /\ nClose = 1
  /\ opts.emit_trailing_newline
  /\ Len(Written) > 0

\* The segments of s between its newlines.
RECURSIVE SplitNL(_)
SplitNL(s) ==
  LET i == FirstNL(s, 1)
  IN IF i = 0 THEN <<s>>
     ELSE <<SubSeq(s, 1, i - 1)>> \o SplitNL(SubSeq(s, i + 1, Len(s)))

LastOpenOk == last.op = "open" /\ last.res = "Ok"

\* Whether depth d is on its first line when the i-th line of the node text
\* of the last open_node is written.
FirstLineAt(d, i) == IF i = 1 THEN last.mid[d].at_first_line ELSE FALSE

PrefixAt(d, i) ==
  write_edge(last.mid[d].edge, last.mid[d].is_last_child, FirstLineAt(d, i), "Prefix")

PaddingAt(d, i) ==
  write_edge(last.mid[d].edge, last.mid[d].is_last_child, FirstLineAt(d, i), "Padding")

\* Prefix and padding of the depths 1 .. n on the i-th line, root first.
RECURSIVE Decor(_, _)
Decor(i, n) ==
  IF n = 0 THEN <<>> ELSE Decor(i, n - 1) \o PrefixAt(n, i) \o PaddingAt(n, i)

\* The Ascii prefix and padding of one depth, as the documentation draws them.
AsciiDecor(is_last_child, first_line) ==
  IF first_line
  THEN IF is_last_child THEN <<BQ, "-", "-", SP>> ELSE <<"|", "-", "-", SP>>
  ELSE IF is_last_child THEN <<SP, SP, SP, SP>> ELSE <<"|", SP, SP, SP>>

RECURSIVE AsciiDecors(_, _)
AsciiDecors(i, n) ==
  IF n = 0 THEN <<>>
  ELSE AsciiDecors(i, n - 1)
       \o AsciiDecor(last.mid[n].is_last_child, FirstLineAt(n, i))

\* The deepest of the depths 1 .. d whose prefix is not whitespace on the
\* i-th line (0: none).
RECURSIVE DeepestVisible(_, _)
DeepestVisible(i, d) ==
  IF d = 0 THEN 0
  ELSE IF ~is_prefix_whitespace(last.mid[d].edge, last.mid[d].is_last_child,
                                FirstLineAt(d, i))
  THEN d
  ELSE DeepestVisible(i, d - 1)

\* C5: under the default config every non-empty line of a node's text is
\* written on a physical line of its own as the prefix and padding of every
\* open depth, root first, followed by the line; under the Ascii style these
\* are "|-- " or "`-- " on the first line of a depth and "|   " or "    "
\* afterwards, so that the line starts at column 4 * (number of open nodes).
C5_ContentLines ==
  (LastOpenOk /\ opts = DefaultConfig) =>
     LET cl == SplitNL(last.content)
         pl == SplitNL(NodeText)
         n == Len(last.mid)
     IN /\ Len(pl) = Len(cl)
        /\ last.midBuf[Len(last.midBuf)] = NL
        /\ \A i \in 1..Len(cl) :
             cl[i] # <<>> =>
               /\ pl[i] = Decor(i, n) \o cl[i]
               /\ env.edges = {"Ascii"} =>
                    /\ pl[i] = AsciiDecors(i, n) \o cl[i]
                    /\ Len(pl[i]) = 4 * n + Len(cl[i])
                    /\ SubSeq(pl[i], 4 * n + 1, Len(pl[i])) = cl[i]

C5_Witness ==
  /\ LastOpenOk
  /\ opts = DefaultConfig
  /\ env.edges = {"Ascii"}
  /\ last.content = <<"a", NL, NL, "a">>
  /\ Len(states) = 3
  /\ states[1].is_last_child
  /\ ~states[2].is_last_child
  /\ ~last.mid[2].at_first_line

\* C6: without emit_trailing_whitespace an empty line of a node's text that
\* is not the final slice is written as prefix and padding of the depths
\* above k and the prefix alone of depth k, the deepest depth whose prefix is
\* not whitespace, and as an empty line when there is no such depth.
C6_EmptyLine ==
  (LastOpenOk /\ ~opts.emit_trailing_whitespace) =>
     LET cl == SplitNL(last.content)
         pl == SplitNL(NodeText)
         n == Len(last.mid)
     IN /\ Len(pl) = Len(cl)
        /\ \A i \in 1..(Len(cl) - 1) :
             cl[i] = <<>> =>
               LET k == DeepestVisible(i, n)
               IN pl[i] = IF k = 0 THEN <<>>
                          ELSE Decor(i, k - 1) \o PrefixAt(k, i)
        /\ (env.edges = {"Ascii"} /\ Len(last.pre) = 0
              /\ last.content = <<"a", NL, NL, "a">>) =>
             NodeText =
               IF last.style.is_last_child
               THEN <<BQ, "-", "-", SP, "a", NL, NL, SP, SP, SP, SP, "a">>
               ELSE <<"|", "-", "-", SP, "a", NL, "|", NL, "|", SP, SP, SP, "a">>

C6_Witness ==
  /\ LastOpenOk
  /\ ~opts.emit_trailing_whitespace
  /\ last.content = <<"a", NL, NL, "a">>
  /\ Len(states) = 3
  /\ ~states[1].is_last_child
  /\ states[2].is_last_child
  /\ states[3].is_last_child
  /\ DeepestVisible(2, 3) = 1

\* C7: without emit_trailing_whitespace the physical line written for an
\* empty line of a node's text never ends in a space: it is empty or ends in
\* a connector.
C7_NoTrailingSpace ==
  (LastOpenOk /\ ~opts.emit_trailing_whitespace) =>
     LET cl == SplitNL(last.content)
         pl == SplitNL(NodeText)
     IN /\ Len(pl) = Len(cl)
        /\ \A i \in 1..(Len(cl) - 1) :
             cl[i] = <<>> => (pl[i] = <<>> \/ pl[i][Len(pl[i])] # SP)

C7_Witness ==
  /\ LastOpenOk
  /\ ~opts.emit_trailing_whitespace
  /\ last.content = <<NL, NL>>
  /\ Len(states) = 2
  /\ ~states[1].is_last_child
  /\ states[2].is_last_child
  /\ SplitNL(NodeText)[2] = PrefixAt(1, 2)
  /\ PrefixAt(1, 2) # <<>>

\* C8: with emit_trailing_whitespace an empty line of a node's text that is
\* not the final slice gets the prefix and the padding of every open depth,
\* as a line with content does.
C8_EmptyLinePadded ==
  (LastOpenOk /\ opts.emit_trailing_whitespace) =>
     LET cl == SplitNL(last.content)
         pl == SplitNL(NodeText)
         n == Len(last.mid)
     IN /\ Len(pl) = Len(cl)
        /\ \A i \in 1..(Len(cl) - 1) :
             cl[i] = <<>> => pl[i] = Decor(i, n)
        /\ (env.edges = {"Ascii"} /\ Len(last.pre) = 0
              /\ last.content = <<"a", NL, NL, "a">>) =>
             NodeText =
               IF last.style.is_last_child
               THEN <<BQ, "-", "-", SP, "a", NL, SP, SP, SP, SP, NL,
                      SP, SP, SP, SP, "a">>
               ELSE <<"|", "-", "-", SP, "a", NL, "|", SP, SP, SP, NL,
                      "|", SP, SP, SP, "a">>

C8_Witness ==
  /\ LastOpenOk
  /\ opts.emit_trailing_whitespace
  /\ last.content = <<"a", NL, NL, "a">>
  /\ Len(states) = 2
  /\ states[1].is_last_child
  /\ states[2].is_last_child
  /\ SplitNL(NodeText)[2] = Spaces(Len(SplitNL(NodeText)[2]))
  /\ Len(SplitNL(NodeText)[2]) > 0

EndsNL(s) == Len(s) > 0 /\ s[Len(s)] = NL

EndsOneNL(s) == EndsNL(s) /\ ~EndsNL(SubSeq(s, 1, Len(s) - 1))

\* C9: for a node text that does not end in a newline, what open_node writes
\* for the node does not end in a newline; for a node text that ends in
\* exactly one newline it ends in exactly one newline.
C9_TrailingNewline ==
  LastOpenOk =>
     /\ ~EndsNL(last.content) => ~EndsNL(NodeText)
     /\ EndsOneNL(last.content) => EndsOneNL(NodeText)

C9_Witness ==
  /\ LastOpenOk
  /\ last.content = <<"a", NL>>
  /\ Len(states) = 2
  /\ ~states[1].is_last_child
  /\ ~states[2].is_last_child
  /\ EndsOneNL(NodeText)

\* The printer as it was before the last call.
PreCtx == [states |-> last.pre, buf |-> last.preBuf, left |-> left,
           st |-> "Ok", closed |-> <<>>, fails |-> 0, line |-> <<>>,
           firsts |-> <<>>]

\* open_node(style, c) then close_node writes what open_node(style, c + "\n")
\* then close_node writes: the first close adds one newline, the second none.
SameAsWithNewline ==
  LET a == close_node(Ctx, opts)
      o == open_node(PreCtx, opts, last.style, nOps, last.content \o <<NL>>)
      b == close_node(o, opts)
  IN /\ a.st = "Ok"
     /\ b.st = "Ok"
     /\ a.buf = writer \o <<NL>>
     /\ b.buf = o.buf
     /\ a.buf = b.buf

\* C10 as stated: with emit_trailing_newline, for every non-empty node text c
\* that does not end in a newline, open_node(style, c) then close_node writes
\* the same characters as open_node(style, c + "\n") then close_node.
C10_AsStated ==
  (LastOpenOk /\ opts.emit_trailing_newline /\ Len(last.content) > 0
     /\ last.content[Len(last.content)] # NL) => SameAsWithNewline

\* C10, amended: the same for every non-empty node text that ends neither in
\* a newline nor in a carriage return.
C10_NewlineOnce ==
  (LastOpenOk /\ opts.emit_trailing_newline /\ Len(last.content) > 0
     /\ last.content[Len(last.content)] \notin {NL, CR}) => SameAsWithNewline

C10_Witness ==
  /\ LastOpenOk
  /\ opts = DefaultConfig
  /\ last.content = <<"a", CR, NL, "a">>
  /\ Len(states) = 2
  /\ SameAsWithNewline

\* C11: with emit_trailing_newline set (the default), after every successful
\* close_node and after finalize the printer has written nothing at all or
\* the last character it wrote is a newline.
C11_EndsInNewline ==
  (/\ opts.emit_trailing_newline
   /\ last.op \in {"close", "finalize"}
   /\ last.res = "Ok") =>
     (Written = <<>> \/ EndsNL(Written))

C11_Witness ==
  /\ opts = DefaultConfig
  /\ last.op = "close"
  /\ last.res = "Ok"
  /\ Len(last.pre) = 2
  /\ ~EndsNL(last.preBuf)
  /\ EndsNL(Written)

\* C12: with emit_trailing_newline unset, close_node and finalize write
\* nothing: the sink after the call is the sink before it; one last node
\* "a" followed by finalize leaves "`-- a" without a newline.
C12_CloseWritesNothing ==
  (~opts.emit_trailing_newline /\ last.op \in {"close", "finalize"}) =>
     writer = last.preBuf

C12_Witness ==
  /\ ~opts.emit_trailing_newline
  /\ last.op = "finalize"
  /\ last.res = "Ok"
  /\ Len(last.pre) = 1
  /\ Written = <<BQ, "-", "-", SP, "a">>

\* C13: an open_node on a non-empty stack starts the new node at the head of
\* a physical line: what the sink holds when the node is pushed is empty or
\* ends in a newline, for both values of emit_trailing_newline.
C13_FreshLine ==
  (LastOpenOk /\ Len(last.pre) > 0) =>
     (last.midBuf = <<>> \/ EndsNL(last.midBuf))

\* C14: a successful close_node appends nothing or exactly one newline to
\* the sink, never a prefix or a padding.
C14_CloseNoDecoration ==
  (last.op = "close" /\ last.res = "Ok") => Out \in {<<>>, <<NL>>}

C14_Witness ==
  /\ last.op = "close"
  /\ last.res = "Ok"
  /\ Len(last.pre) = 2
  /\ opts.emit_trailing_whitespace
  /\ Out = <<NL>>

IsPrefix(a, b) == Len(a) <= Len(b) /\ SubSeq(b, 1, Len(a)) = a

IsSuffix(a, b) ==
  Len(a) <= Len(b) /\ SubSeq(b, Len(b) - Len(a) + 1, Len(b)) = a

\* What a successful open_node step appended after it pushed the node holds
\* the lines of the text it was given, one per physical line, in their order.
OpenAppendsItsLines ==
  (last'.op = "open" /\ last'.res = "Ok") =>
     LET cl == SplitNL(last'.content)
         pl == SplitNL(SubSeq(writer', Len(last'.midBuf) + 1, Len(writer')))
     IN /\ IsPrefix(writer, last'.midBuf)
        /\ IsPrefix(last'.midBuf, writer')
        /\ Len(pl) = Len(cl)
        /\ \A i \in 1..Len(cl) : IsSuffix(cl[i], pl[i])

\* C15: the sink is append-only and unbuffered: every call leaves what the
\* sink held before it, pre-seeded text included, as a prefix of what it
\* holds afterwards, and every open_node appends the lines of its own text
\* during the call, so that the texts stand in the order of the calls.
C15_AppendOnly ==
  /\ [](IsPrefix(Seed, writer))
  /\ [][IsPrefix(writer, writer') /\ OpenAppendsItsLines]_vars

C15_Witness ==
  /\ LastOpenOk
  /\ Len(last.pre) = 2
  /\ last.content = <<"a", NL, NL, "a">>
  /\ Len(last.preBuf) > Len(Seed)
  /\ Len(writer) > Len(last.midBuf)

\* The slices joined with a newline between consecutive ones.
RECURSIVE JoinNL(_)
JoinNL(ls) ==
  IF Len(ls) = 0 THEN <<>>
  ELSE IF Len(ls) = 1 THEN ls[1]
  ELSE ls[1] \o <<NL>> \o JoinNL(Tail(ls))

\* The slices of the text the iterator yielded, without the empty item that
\* marks a trailing newline.
Slices ==
  LET n == Len(lines.out)
      m == IF n > 0 /\ lines.out[n].extra THEN n - 1 ELSE n
  IN [i \in 1..m |-> lines.out[i].line]

RoundTrip ==
  JoinNL(Slices) \o (IF EndsNL(lines.s) THEN <<NL>> ELSE <<>>) = lines.s

\* A carriage return that lines() may take for a part of a line ending.
CRAtLineEnd(s) ==
  \E i \in 1..Len(s) : s[i] = CR /\ (i = Len(s) \/ s[i + 1] = NL)

Double == <<"Double">>

IsDashed(v) == v[1] = "Dashed"

IsBoldDashed(v) == v[1] = "Dashed" /\ v[2] = "Bold"

\* C17: build returns None for a combination that mixes a Double axis and a
\* Dashed axis at one junction (both vertical axes Double, the horizontal
\* Dashed(Bold, Double)), and returns a config when the three axes are
\* Solid(Narrow) and the corner is Angle, for either ambiguous width.
C17_BuildOutcome ==
  uconf.called =>
     /\ (/\ builder.vertical_backward = Double
         /\ builder.vertical_forward = Double
         /\ builder.horizontal = <<"Dashed", "Bold", "Double">>)
        => uconf.conf = <<>>
     /\ (/\ builder.vertical_backward = <<"Solid", "Narrow">>
         /\ builder.vertical_forward = <<"Solid", "Narrow">>
         /\ builder.horizontal = <<"Solid", "Narrow">>
         /\ builder.corner = "Angle")
        => /\ uconf.conf # <<>>
           /\ uconf.conf[1].ambiwidth = builder.ambiwidth

C17_Witness ==
  /\ uconf.called
  /\ builder.vertical_backward = Double
  /\ builder.vertical_forward = Double
  /\ builder.horizontal = <<"Dashed", "Bold", "Double">>
  /\ uconf.conf = <<>>

\* A Double line meets a Dashed line at the junction: a vertical axis is
\* Double and the horizontal Dashed, or a vertical axis is Dashed and the
\* horizontal Double.
DoubleMeetsDashed(b) ==
  \/ /\ Double \in {b.vertical_backward, b.vertical_forward}
     /\ IsDashed(b.horizontal)
  \/ /\ IsDashed(b.vertical_backward) \/ IsDashed(b.vertical_forward)
     /\ b.horizontal = Double

DoubleMeetsBoldDashed(b) ==
  \/ /\ Double \in {b.vertical_backward, b.vertical_forward}
     /\ IsBoldDashed(b.horizontal)
  \/ /\ IsBoldDashed(b.vertical_backward) \/ IsBoldDashed(b.vertical_forward)
     /\ b.horizontal = Double

\* C18 as stated: every combination in which a Double line meets a Dashed
\* line at the junction makes build return None.
C18_AsStated ==
  (uconf.called /\ DoubleMeetsDashed(builder)) => uconf.conf = <<>>

\* C18: build returns None whenever one of the two junction lookups, which
\* take a Dashed axis for the Solid axis of its width, has no glyph; this is
\* so for every combination in which a Double line meets a Dashed(Bold) line
\* at the junction.
C18_NoJunctionGlyph ==
  uconf.called =>
     /\ (\/ preceding_first_first(builder.vertical_backward,
                                  builder.vertical_forward,
                                  builder.horizontal) = <<>>
         \/ last_first_first(builder.vertical_backward, builder.horizontal,
                             builder.corner) = <<>>)
        => uconf.conf = <<>>
     /\ DoubleMeetsBoldDashed(builder) => uconf.conf = <<>>

C18_Witness ==
  /\ uconf.called
  /\ builder.vertical_backward = <<"Dashed", "Bold", "Triple">>
  /\ builder.vertical_forward = <<"Dashed", "Bold", "Triple">>
  /\ builder.horizontal = Double
  /\ uconf.conf = <<>>

\* The fixed table of an ambiguous width.
FixedOf(ambiwidth) ==
  IF ambiwidth = "Single" THEN "UnicodeSingleWidth" ELSE "UnicodeDoubleWidth"

\* C19: a config built with all axes at their defaults draws, for every
\* position and both fragments, what the fixed table of its width draws
\* (Single: UnicodeSingleWidth, Double: UnicodeDoubleWidth), and elides the
\* same positions.
C19_DefaultIsFixed ==
  (uconf.called /\ builder = with_ambiwidth(builder.ambiwidth)) =>
     /\ uconf.conf # <<>>
     /\ drawn.edge = "Unicode" =>
          /\ drawn.prefix = write_edge(FixedOf(builder.ambiwidth),
                                       drawn.last_child, drawn.first_line,
                                       "Prefix")
          /\ drawn.padding = write_edge(FixedOf(builder.ambiwidth),
                                        drawn.last_child, drawn.first_line,
                                        "Padding")
          /\ Unicode_is_prefix_whitespace(uconf.conf[1], drawn.last_child,
                                          drawn.first_line)
             = is_prefix_whitespace(FixedOf(builder.ambiwidth),
                                    drawn.last_child, drawn.first_line)

C19_Witness ==
  /\ uconf.called
  /\ builder = with_ambiwidth("Double")
  /\ drawn.edge = "Unicode"
  /\ drawn.first_line
  /\ drawn.last_child
  /\ drawn.prefix = <<"u2514", "u2500">>
  /\ drawn.padding = <<SP>>

\* The columns a string takes: a box-drawing character takes two columns in
\* the double width family, every other character one.
RECURSIVE Columns(_, _)
Columns(edge, str) ==
  IF Len(str) = 0 THEN 0
  ELSE (IF edge = "UnicodeDoubleWidth" /\ Head(str) # SP THEN 2 ELSE 1)
       + Columns(edge, Tail(str))

\* C20: in each style family the prefix and the padding of a position take
\* the same number of columns together at all four positions: 4 for Ascii
\* and UnicodeSingleWidth, whose first-line prefix has 3 characters, and 5
\* for UnicodeDoubleWidth, whose first-line prefix has 2; the prefix of a
\* last child is empty after its first line.
C20_EqualWidth ==
  drawn.edge \in Edges =>
     /\ Columns(drawn.edge, drawn.prefix \o drawn.padding)
        = (IF drawn.edge = "UnicodeDoubleWidth" THEN 5 ELSE 4)
     /\ drawn.first_line =>
          Len(drawn.prefix) = (IF drawn.edge = "UnicodeDoubleWidth" THEN 2 ELSE 3)
     /\ (drawn.last_child /\ ~drawn.first_line) => drawn.prefix = <<>>

C20_Witness ==
  /\ drawn.edge = "UnicodeDoubleWidth"
  /\ drawn.last_child
  /\ ~drawn.first_line
  /\ drawn.prefix = <<>>
  /\ drawn.padding = Spaces(5)

\* Whether the last draw used a double width table, and what the single
\* width table of the same style draws at the same position.
DrawnDouble ==
  \/ drawn.edge = "UnicodeDoubleWidth"
  \/ drawn.edge = "Unicode" /\ uconf.conf[1].ambiwidth = "Double"

NarrowDraw(fragment) ==
  IF drawn.edge = "Unicode"
  THEN Unicode_write_edge([uconf.conf[1] EXCEPT !.ambiwidth = "Single"],
                          drawn.last_child, drawn.first_line, fragment)
  ELSE write_edge("UnicodeSingleWidth", drawn.last_child, drawn.first_line,
                  fragment)

\* In double width mode the first-line prefix is the junction and the
\* horizontal line once, where single width mode has it twice.
ContinuationOnce ==
  drawn.first_line =>
     /\ Len(drawn.prefix) = 2
     /\ NarrowDraw("Prefix") = drawn.prefix \o <<drawn.prefix[2]>>

\* C21 as stated: in double width mode the horizontal line after the
\* junction is written once instead of twice and the padding is one column
\* wider than that of single width mode at every position.
C21_AsStated ==
  DrawnDouble =>
     /\ ContinuationOnce
     /\ Len(drawn.padding) = Len(NarrowDraw("Padding")) + 1

\* C21: in double width mode the horizontal line after the junction is
\* written once instead of twice; the padding of a last child after its
\* first line is one column wider than in single width mode (5 spaces for
\* 4), and the padding of every other position is the same string; the
\* continuation prefix is the same string too.
C21_DoubleWidth ==
  DrawnDouble =>
     /\ ContinuationOnce
     /\ (drawn.last_child /\ ~drawn.first_line) =>
          /\ drawn.padding = Spaces(5)
          /\ NarrowDraw("Padding") = Spaces(4)
     /\ ~(drawn.last_child /\ ~drawn.first_line) =>
          drawn.padding = NarrowDraw("Padding")
     /\ ~drawn.first_line => drawn.prefix = NarrowDraw("Prefix")

C21_Witness ==
  /\ drawn.edge = "Unicode"
  /\ uconf.conf[1].ambiwidth = "Double"
  /\ builder.horizontal = <<"Double">>
  /\ drawn.last_child
  /\ ~drawn.first_line
  /\ drawn.padding = Spaces(5)

AllSpaces(str) == \A i \in 1..Len(str) : str[i] = SP

\* What is_prefix_whitespace answers for the position drawn last.
DrawnIsWhitespace ==
  IF drawn.edge = "Unicode"
  THEN Unicode_is_prefix_whitespace(uconf.conf[1], drawn.last_child,
                                    drawn.first_line)
  ELSE is_prefix_whitespace(drawn.edge, drawn.last_child, drawn.first_line)

\* C22: for every style family and position is_prefix_whitespace is true
\* exactly for a last child after its first line, and exactly when prefix
\* and padding of that position hold nothing but spaces.
C22_PrefixWhitespace ==
  drawn.edge # "none" =>
     /\ DrawnIsWhitespace = (drawn.last_child /\ ~drawn.first_line)
     /\ DrawnIsWhitespace = AllSpaces(drawn.prefix \o drawn.padding)

C22_Witness ==
  /\ drawn.edge = "Ascii"
  /\ drawn.last_child
  /\ ~drawn.first_line
  /\ drawn.prefix = <<>>
  /\ drawn.padding = Spaces(4)

\* C23: every call returns success, ExtraNodeClose or the Format error; a
\* call during which the sink reported a failure returns the Format error
\* and not success, the sink was asked once only after it failed (no retry,
\* no further write), and a call returns the Format error for no other
\* reason.
C23_ErrorPropagation ==
  /\ last.res \in {"Ok", "ExtraNodeClose", "Err"}
  /\ last.fails > 0 => (last.res = "Err" /\ last.fails = 1)
  /\ last.res = "Err" => last.fails = 1
  /\ (last.op = "open" \/ last.op = "finalize") => last.res # "ExtraNodeClose"

C23_Witness ==
  /\ last.op = "close"
  /\ last.res = "Err"
  /\ last.fails = 1
  /\ Len(last.pre) = 1
  /\ Len(states) = 1
  /\ writer = last.preBuf

\* C26: no internal assertion fires, whatever the calls, the config and the
\* failures of the sink: write_prefix is entered at LineStart only,
\* write_padding at PrefixEmitted only, go_to_next_line never on an empty
\* stack and it leaves the top state at line head when its write succeeded,
\* and finalize finds the stack empty after its closes.
C26_NoAssertionFires ==
  /\ last.res # "Panic"
  /\ (last.op = "finalize" /\ last.res = "Ok") => states = <<>>

C26_Witness ==
  /\ last.op = "close"
  /\ last.res = "Ok"
  /\ Len(last.pre) = 1
  /\ last.pre[1].edge_status = "PrefixEmitted"
  /\ opts.emit_trailing_newline
  /\ left = 0

\* C24: edge styles are per node. On every physical line that open_node
\* writes, the part drawn for depth d is the prefix and the padding that the
\* glyph table gives for the style, the is_last_child flag and the
\* at_first_line flag of the node open at depth d, whatever the styles of the
\* other nodes are: a line with text carries these parts of every depth, root
\* first, and an empty line that is not the final slice carries them up to
\* some depth, the last part with or without its padding.
C24_PerNodeStyle ==
  LastOpenOk =>
     LET cl == SplitNL(last.content)
         pl == SplitNL(NodeText)
         n == Len(last.mid)
     IN /\ Len(pl) = Len(cl)
        /\ \A i \in 1..Len(cl) :
             /\ cl[i] # <<>> => pl[i] = Decor(i, n) \o cl[i]
             /\ (cl[i] = <<>> /\ i < Len(cl)) =>
                  \E k \in 0..n :
                     \/ pl[i] = Decor(i, k)
                     \/ k > 0 /\ pl[i] = Decor(i, k - 1) \o PrefixAt(k, i)

C24_Witness ==
  /\ LastOpenOk
  /\ Len(states) = 3
  /\ states[1].edge = "Ascii"
  /\ states[2].edge = "UnicodeDoubleWidth"
  /\ states[3].edge = "Ascii"
  /\ states[2].is_last_child
  /\ ~states[2].at_first_line
  /\ last.content = <<"a">>
  /\ NodeText = <<"|", SP, SP, SP>> \o Spaces(5) \o write_edge("Ascii", states[3].is_last_child, TRUE, "Prefix") \o <<SP, "a">>

\* The fragments written for depth d on the current physical line, in order.
FragsOfDepth(d) ==
  LET at(e) == e[2] = d
      hit == SelectSeq(last.line, at)
  IN [k \in 1..Len(hit) |-> hit[k][3]]

\* The fragments written for the node id on the current physical line.
FragsOfNode(id) ==
  LET of(e) == e[1] = id
      hit == SelectSeq(last.line, of)
  IN [k \in 1..Len(hit) |-> hit[k][3]]

StatusAfter(frags) ==
  IF frags = <<>> THEN "LineStart"
  ELSE IF frags = <<"Prefix">> THEN "PrefixEmitted"
  ELSE IF frags = <<"Prefix", "Padding">> THEN "PaddingEmitted"
  ELSE "None"

\* C27: per depth and per physical line, edge_status advances in the order
\* LineStart, PrefixEmitted, PaddingEmitted and returns to LineStart only
\* when a newline is written: the status of every open node is the one its
\* own fragments on the current physical line lead to, and the fragments
\* written for a depth on one physical line are at most one prefix followed
\* by at most one padding.
C27_OncePerLine ==
  /\ \A d \in 1..Len(states) :
        states[d].edge_status = StatusAfter(FragsOfNode(states[d].id))
  /\ \A d \in 1..MaxOps + 1 : StatusAfter(FragsOfDepth(d)) # "None"

HasNL(s) == \E k \in 1..Len(s) : s[k] = NL

\* The depths that were open before the last call and still are.
Survivors ==
  1..(IF Len(last.pre) < Len(states) THEN Len(last.pre) ELSE Len(states))

\* C28: every newline written through the item writer resets every depth on
\* the stack, ancestors included, to at_first_line = false and edge_status =
\* LineStart, and at_first_line never becomes true again. After a successful
\* call that wrote a newline no node that was open before is on its first
\* line, and if the newline was the last thing written all of them are at
\* LineStart; the same holds of the node just opened for the newlines of its
\* own text; a node that had left its first line before the call has left
\* it after the call.
C28_NewlineResets ==
  /\ \A d \in Survivors :
        /\ states[d].id = last.pre[d].id
        /\ ~last.pre[d].at_first_line => ~states[d].at_first_line
  /\ last.res = "Ok" =>
        /\ HasNL(Out) => \A d \in Survivors : ~states[d].at_first_line
        /\ EndsNL(Out) =>
              \A d \in Survivors : states[d].edge_status = "LineStart"
  /\ LastOpenOk =>
        /\ HasNL(NodeText) => ~states[Len(states)].at_first_line
        /\ ~HasNL(NodeText) => states[Len(states)].at_first_line
        /\ EndsNL(NodeText) => states[Len(states)].edge_status = "LineStart"

C28_Witness ==
  /\ LastOpenOk
  /\ Len(last.pre) = 2
  /\ last.pre[1].at_first_line
  /\ last.pre[2].at_first_line
  /\ last.pre[1].edge_status = "LineStart"
  /\ last.content = <<"a", NL>>
  /\ \A d \in 1..3 :
        ~states[d].at_first_line /\ states[d].edge_status = "LineStart"

\* C29: with a non-empty stack and only successful calls so far, the top
\* state has edge_status = LineStart exactly if the printer has written no
\* character on the current physical line, that is if the sink ends with a
\* newline.
C29_TopIsLineHead ==
  (Len(states) > 0 /\ last.res = "Ok") =>
     (is_at_line_head(states[Len(states)]) <=> EndsNL(writer))

\* The number of newlines in s.
CountNL(s) == Cardinality({k \in 1..Len(s) : s[k] = NL})

\* C30: the line splitter yields no pair for the empty string; for any other
\* text it yields (number of newlines) + 1 pairs, of which the final one and
\* no other carries is-last = true, and the final pair is the empty slice
\* when the text ends in a newline.
C30_PairCount ==
  lines.done =>
     LET n == Len(lines.out)
     IN /\ lines.s = <<>> => n = 0
        /\ lines.s # <<>> =>
              /\ n = CountNL(lines.s) + 1
              /\ \A i \in 1..n : lines.out[i].last <=> i = n
              /\ EndsNL(lines.s) => lines.out[n].line = <<>>

C30_Witness ==
  /\ lines.done
  /\ lines.s = <<"a", CR, NL, NL>>
  /\ Len(lines.out) = 3
  /\ lines.out[1].line = <<"a">>
  /\ lines.out[3].last

\* Every state of the stack has the status of the first one, which is
\* LineStart or PaddingEmitted.
UniformStatus ==
  \A d \in 1..Len(states) :
     /\ states[d].edge_status = states[1].edge_status
     /\ states[d].edge_status \in {"LineStart", "PaddingEmitted"}

LastCallOk == last.op \in {"open", "close"} /\ last.res = "Ok"

MidCtx == [states |-> last.mid, buf |-> last.midBuf, left |-> -1,
           st |-> "Ok", closed |-> <<>>, fails |-> 0, line |-> <<>>,
           firsts |-> <<>>]

\* C32: a content without carriage returns that reaches the item writer as
\* write_str(s1) followed by write_str(s2) leaves the sink and the states of
\* all depths as a single write_str(s1 s2) does, for every stack, config and
\* split.
C32_ChunkInvariance ==
  (last.op = "open" /\ last.split >= 0) =>
     LET one == write_str(MidCtx, opts, last.content)
     IN /\ one.st = last.res
        /\ one.buf = writer
        /\ one.states = states

C32_Witness ==
  /\ last.op = "open"
  /\ last.res = "Ok"
  /\ last.split = 1
  /\ last.content = <<"a", NL, NL, "a">>
  /\ Len(states) = 2
  /\ ~opts.emit_trailing_whitespace
  /\ states[1].is_last_child

HasCR(s) == \E k \in 1..Len(s) : s[k] = CR

\* Every slice the iterator yielded, the empty final one included.
AllSlices == [i \in 1..Len(lines.out) |-> lines.out[i].line]

\* C33: for every text without a carriage return, all slices the line
\* splitter yields, joined with single newlines and nothing after the last
\* one, give the text back.
C33_JoinAll == (lines.done /\ ~HasCR(lines.s)) => JoinNL(AllSlices) = lines.s

C33_Witness ==
  /\ lines.done
  /\ lines.s = <<"a", NL, NL>>
  /\ AllSlices = << <<"a">>, <<>>, <<>> >>

\* How often id occurs in the sequence ids.
Occurrences(id, ids) == Cardinality({k \in 1..Len(ids) : ids[k] = id})

\* A state for which nothing has been drawn yet.
Undrawn(state) == state.at_first_line /\ state.edge_status = "LineStart"

\* C34: a node opened with empty content writes no prefix, padding or
\* content of its own. open_node(style, "") appends nothing but at most the
\* one newline that moves to a fresh line, a close_node that follows it at
\* once appends nothing, and the first-line connector of the node is drawn
\* when the first descendant with content is opened, on the physical line
\* on which that descendant draws its own connector.
C34_EmptyNode ==
  /\ (LastOpenOk /\ last.content = <<>>) =>
        /\ Out \in {<<>>, <<NL>>}
        /\ NodeText = <<>>
        /\ Undrawn(states[Len(states)])
        /\ Occurrences(states[Len(states)].id, last.firsts) = 0
  /\ (last.op = "close" /\ last.res = "Ok"
        /\ Undrawn(last.pre[Len(last.pre)])
        /\ last.pre[Len(last.pre)].id = nOps - 1) =>
        Out = <<>>
  /\ (LastOpenOk /\ last.content # <<>>) =>
        LET n == Len(last.mid)
        IN /\ IsPrefix(Decor(1, n - 1) \o PrefixAt(n, 1),
                       SplitNL(NodeText)[1])
           /\ \A d \in 1..n :
                 Undrawn(last.mid[d]) =>
                   /\ FirstLineAt(d, 1)
                   /\ ~is_prefix_whitespace(last.mid[d].edge,
                                            last.mid[d].is_last_child, TRUE)
                   /\ Occurrences(last.mid[d].id, last.firsts) = 1

C34_Witness ==
  /\ LastOpenOk
  /\ env.edges = {"Ascii"}
  /\ Len(last.pre) = 2
  /\ Undrawn(last.pre[1])
  /\ Undrawn(last.pre[2])
  /\ last.content = <<"a">>
  /\ Out = <<"|", "-", "-", SP, BQ, "-", "-", SP, "|", "-", "-", SP, "a">>

FailedBeforePush ==
  last.op = "open" /\ last.res = "Err" /\ Len(last.mid) = Len(last.pre)

\* C36: the stack after a sink failure. An open_node that fails in its move
\* to a fresh line pushes nothing: the stack holds the nodes it held, and if
\* this is the first failure of the sink their states and the sink are as
\* they were. An open_node that fails while it writes the content leaves
\* the new state on the stack, one state more than before although it
\* returned an error. A close_node that fails in its newline does not pop.
C36_StackAfterFailure ==
  /\ FailedBeforePush =>
        /\ Len(last.pre) > 0
        /\ ~is_at_line_head(last.pre[Len(last.pre)])
        /\ Ids(states) = Ids(last.pre)
        /\ last.errs = 1 => (states = last.pre /\ writer = last.preBuf)
  /\ (last.op = "open" /\ last.res = "Err" /\ ~FailedBeforePush) =>
        /\ Len(states) = Len(last.pre) + 1
        /\ Ids(states) = Ids(last.pre) \o <<nOps>>
        /\ states[Len(states)].is_last_child = last.style.is_last_child
        /\ states[Len(states)].edge = last.style.edge
  /\ (last.op = "close" /\ last.res = "Err") =>
        /\ opts.emit_trailing_newline
        /\ Ids(states) = Ids(last.pre)
        /\ last.errs = 1 => (states = last.pre /\ writer = last.preBuf)

C36_Witness ==
  /\ last.op = "open"
  /\ last.res = "Err"
  /\ Len(last.pre) = 1
  /\ Len(states) = 2
  /\ last.midBuf = last.preBuf \o <<NL>>
  /\ last.content = <<"a">>
  /\ states[1].edge_status = "PaddingEmitted"
  /\ states[2].edge_status = "PrefixEmitted"

\* Prefix and padding of the depths 1 .. n of the last open_node in their
\* continuation form, root first.
RECURSIVE ContDecor(_)
ContDecor(n) ==
  IF n = 0 THEN <<>>
  ELSE ContDecor(n - 1)
       \o write_edge(last.mid[n].edge, last.mid[n].is_last_child, FALSE, "Prefix")
       \o write_edge(last.mid[n].edge, last.mid[n].is_last_child, FALSE, "Padding")

\* C37: the first-line connector of a node is written at most once in the
\* lifetime of the node, whatever is called and however many lines the node
\* or its descendants have: no node occurs twice among the first-line
\* prefixes written, no node whose connector is written is in the state in
\* which it would be written again, and from its second line on a text is
\* preceded by the continuation form of every depth.
C37_ConnectorOnce ==
  /\ \A k \in 1..Len(last.firsts) :
        Occurrences(last.firsts[k], last.firsts) = 1
  /\ \A d \in 1..Len(states) :
        Undrawn(states[d]) => Occurrences(states[d].id, last.firsts) = 0
  /\ LastOpenOk =>
        LET cl == SplitNL(last.content)
            pl == SplitNL(NodeText)
        IN \A i \in 2..Len(cl) :
              cl[i] # <<>> => pl[i] = ContDecor(Len(last.mid)) \o cl[i]

C37_Witness ==
  /\ LastOpenOk
  /\ Len(states) = 2
  /\ last.content = <<"a", NL, NL, "a">>
  /\ last.firsts = <<1, 2>>
  /\ last.pre[1].at_first_line
  /\ ~states[1].at_first_line
  /\ ~states[1].is_last_child
  /\ states[1].edge = "Ascii"

\* The style v with a dashed line taken for the solid line of its width.
Undashed(v) == IF v[1] = "Dashed" THEN <<"Solid", v[2]>> ELSE v

\* The styles that differ from v in their dashing at most.
Variants(v) == {r \in EdgeStyles : Undashed(r) = Undashed(v)}

\* C38: whether build returns a config does not depend on dashing. For the
\* builder that was built and every builder that differs from it only in
\* the dashing of its axes (Dashed(w, l) for Solid(w) or another level),
\* build returns a config for both or for neither, with the same two
\* junction glyphs; the vertical line glyph differs only with the dashing
\* of vertical_forward and the horizontal one only with that of horizontal.
C38_DashingIrrelevant ==
  uconf.called =>
     \A vb \in Variants(builder.vertical_backward),
        vf \in Variants(builder.vertical_forward),
        h \in Variants(builder.horizontal) :
        LET alt == build([builder EXCEPT !.vertical_backward = vb,
                                         !.vertical_forward = vf,
                                         !.horizontal = h])
        IN /\ (alt = <<>>) <=> (uconf.conf = <<>>)
           /\ alt # <<>> =>
                 /\ alt[1].preceding_first_first
                      = uconf.conf[1].preceding_first_first
                 /\ alt[1].last_first_first = uconf.conf[1].last_first_first
                 /\ alt[1].ambiwidth = uconf.conf[1].ambiwidth
                 /\ vf = builder.vertical_forward =>
                       alt[1].preceding_succeeding_first
                         = uconf.conf[1].preceding_succeeding_first
                 /\ h = builder.horizontal =>
                       alt[1].any_first_succeeding
                         = uconf.conf[1].any_first_succeeding
                 /\ vf # builder.vertical_forward =>
                       alt[1].preceding_succeeding_first
                         # uconf.conf[1].preceding_succeeding_first
                 /\ h # builder.horizontal =>
                       alt[1].any_first_succeeding
                         # uconf.conf[1].any_first_succeeding

C38_Witness ==
  /\ uconf.called
  /\ builder.vertical_backward = <<"Solid", "Bold">>
  /\ builder.vertical_forward = <<"Solid", "Bold">>
  /\ builder.horizontal = <<"Dashed", "Bold", "Double">>
  /\ builder.corner = "Angle"
  /\ uconf.conf # <<>>
  /\ uconf.conf[1].last_first_first = "u2517"
  /\ uconf.conf[1].preceding_first_first = "u2523"
  /\ uconf.conf[1].any_first_succeeding = "u254D"

\* C39: build fails through the two junction lookups only. The lookups of
\* the vertical and the horizontal line have a glyph for every EdgeStyle, so
\* build returns None exactly when preceding_first_first or last_first_first
\* has none; with the Round corner it returns a config only if
\* vertical_backward and horizontal both collapse to Solid(Narrow).
C39_JunctionsDecide ==
  /\ \A v \in EdgeStyles :
        preceding_succeeding_first(v) # <<>> /\ any_first_succeeding(v) # <<>>
  /\ uconf.called =>
        /\ uconf.conf = <<>> <=>
              \/ preceding_first_first(builder.vertical_backward,
                                       builder.vertical_forward,
                                       builder.horizontal) = <<>>
              \/ last_first_first(builder.vertical_backward,
                                  builder.horizontal, builder.corner) = <<>>
        /\ (builder.corner = "Round" /\ uconf.conf # <<>>) =>
              /\ Undashed(builder.vertical_backward) = <<"Solid", "Narrow">>
              /\ Undashed(builder.horizontal) = <<"Solid", "Narrow">>

C39_Witness ==
  /\ uconf.called
  /\ builder.corner = "Round"
  /\ builder.vertical_backward = <<"Dashed", "Narrow", "Quadruple">>
  /\ builder.vertical_forward = <<"Solid", "Bold">>
  /\ builder.horizontal = <<"Dashed", "Narrow", "Triple">>
  /\ uconf.conf # <<>>
  /\ uconf.conf[1].last_first_first = "u2570"
  /\ uconf.conf[1].preceding_first_first = "u251F"

====
